---- MODULE Spec2Model ----
(***************************************************************************)
(* A model of src/identity.go (package ztidentity): the memory-hard hash,  *)
(* dual key generation, the identity mining loop of NewZeroTierIdentity,   *)
(* and the accessors and string encoders of ZeroTierIdentity.              *)
(*                                                                         *)
(* Byte arrays are sequences of naturals below 256, indexed from 1, so the *)
(* Go byte b[k] is b[k+1] here.  A uint64 is its 8 bytes, most significant *)
(* first, because 2^40 and 2^64 do not fit the checker's integers.         *)
(*                                                                         *)
(* The working memory of the hash is MemBlocks blocks of 64 bytes instead  *)
(* of the 32768 blocks the source sets; every size the algorithm derives   *)
(* from it (M/64 fill blocks, M/8 swap slots, the mixing scan) is derived  *)
(* here the same way.  SHA-512, Salsa20, Ed25519 and Curve25519 are        *)
(* library code outside the repository: each is stood for by a small       *)
(* deterministic byte function of the same shape.                          *)
(***************************************************************************)
EXTENDS Integers, Sequences, FiniteSets, TLC

\* ------------------------------------------------------------- bounds
\* Number of 64-byte blocks of working memory.
MemBlocks == 2
\* The secure random source hands out one of the values 0..MaxEntropy
\* (expanded to 32 bytes) on each read.
MaxEntropy == 2

\* -------------------------------------------------- program constants
ztIdentityGenMemory == MemBlocks * 64
ztIdentityHashCashFirstByteLessThan == 17

\* -------------------------------------------------------------- bytes
\* A byte array as an explicit tuple (its elements computed once)
Bytes(f) == SubSeq(f, 1, Len(f))

\* The element of a one-element set.  An operator below that reads an
\* argument more than once binds it first, as in The({e(x) : x \in {arg}}),
\* so that the argument is computed once.
The(S) == CHOOSE x \in S : TRUE

Zeros(n) == Bytes([j \in 1..n |-> 0])

Pow2(k) == CASE k = 0 -> 1 [] k = 1 -> 2 [] k = 2 -> 4 [] k = 3 -> 8
             [] k = 4 -> 16 [] k = 5 -> 32 [] k = 6 -> 64 [] k = 7 -> 128

Bit(a, k) == (a \div Pow2(k)) % 2

\* a ^ b on bytes
XorByte(a, b) ==
    LET x(k) == ((Bit(a, k) + Bit(b, k)) % 2) * Pow2(k)
    IN  x(0) + x(1) + x(2) + x(3) + x(4) + x(5) + x(6) + x(7)

\* a | b on bytes
OrByte(a, b) ==
    LET o(k) == (IF Bit(a, k) + Bit(b, k) > 0 THEN 1 ELSE 0) * Pow2(k)
    IN  o(0) + o(1) + o(2) + o(3) + o(4) + o(5) + o(6) + o(7)

\* b[lo:hi] of Go: bytes lo .. hi-1 (0-based), as a sequence of its own
Slice(b, lo, hi) == SubSeq(b, lo + 1, hi)

\* copy(dst[at:at+len(src)], src)
CopyInto(dst, at, src) ==
    The({ Bytes([j \in 1..Len(d) |->
                   IF j > at /\ j <= at + Len(s) THEN s[j - at] ELSE d[j]])
          : d \in {dst}, s \in {src} })

\* binary.BigEndian.Uint64(b) % n, for 0 < n < 2^16, by Horner's rule
BigEndianUint64Mod(b, n) ==
    LET h(v, x) == (v * 256 + x) % n
    IN  The({ h(h(h(h(h(h(h(h(0, c[1]), c[2]), c[3]), c[4]), c[5]), c[6]), c[7]), c[8])
              : c \in {b} })

\* binary.LittleEndian.PutUint64: the 8 bytes of v, least significant first
\* (v stays below 2^24 here)
LittleEndianUint64(v) ==
    <<v % 256, (v \div 256) % 256, (v \div 65536) % 256, 0, 0, 0, 0, 0>>

\* ------------------------------------------- library code, stood for
\* sha512.Sum512: 64 bytes from a message
Sum512(msg) ==
    The({ LET n == Len(m)
              acc[k \in 0..n] ==
                  IF k = 0 THEN 0 ELSE (acc[k - 1] + m[k] * (2 * k + 1)) % 256
          IN  The({ Bytes([j \in 1..64 |->
                             (m[((j - 1) % n) + 1] * 5 + m[((7 * j) % n) + 1] * 3
                                + w * (2 * j + 1)) % 256])
                    : w \in {acc[n]} })
          : m \in {msg} })

\* The Salsa20 keystream block for a 16-byte nonce-and-counter and a key.
Salsa20Block(counter, key) ==
    The({ LET blk == c[9] + 256 * c[10]
          IN  Bytes([j \in 1..64 |->
                  (k[((j + blk) % 32) + 1] * (2 * j + 1)
                     + c[((j + blk) % 8) + 1] * (blk + 3)
                     + k[((5 * j + blk) % 32) + 1] * (2 * blk + 1)) % 256])
          : c \in {counter}, k \in {key} })

\* salsa.XORKeyStream(out, in, &counter, &key) for a 64-byte in: the value of out
XORKeyStream(in, counter, key) ==
    The({ Bytes([j \in 1..Len(x) |-> XorByte(x[j], ks[j])])
          : x \in {in}, ks \in {Salsa20Block(counter, key)} })

\* ed25519: the public key of a 32-byte seed
Ed25519Public(seed) ==
    The({ Bytes([j \in 1..32 |->
                   (s[j] * 3 + s[33 - j] * 5 + s[((3 * j) % 32) + 1]) % 256])
          : s \in {seed} })

\* curve25519.ScalarBaseMult: the public point of a 32-byte scalar
ScalarBaseMult(scalar) ==
    The({ Bytes([j \in 1..32 |->
                   (k[j] * 9 + k[(j % 32) + 1] * 7 + k[((5 * j) % 32) + 1]) % 256])
          : k \in {scalar} })

\* ------------------------------------- computeZeroTierIdentityMemoryHardHash
\* The frame of one call: its locals.  Lines 47-54: the digest of the key,
\* the zeroed working memory, the Salsa20 key and nonce, the counter at 0.
HashEnter(publicKey) ==
    The({ [ s512    |-> s,
            genmem  |-> Zeros(ztIdentityGenMemory),
            s20key  |-> Slice(s, 0, 32),
            s20ctr  |-> CopyInto(Zeros(16), 0, Slice(s, 32, 40)),
            s20ctri |-> 0,
            i       |-> 0,
            idx1    |-> 0,
            idx2    |-> 0 ]
          : s \in {Sum512(publicKey)} })

\* Lines 55-57: the first block, then the fill loop's i := 64.
FillFirst(frame) ==
    The({ [f EXCEPT !.genmem  = CopyInto(f.genmem, 0,
                                    XORKeyStream(Slice(f.genmem, 0, 64), f.s20ctr, f.s20key)),
                    !.s20ctri = f.s20ctri + 1,
                    !.i       = 64]
          : f \in {frame} })

\* FillBlock with the counter left as it was (line 60 missing).
FillBlockSameCounter(frame) ==
    The({ [f EXCEPT !.s20ctr  = ctr,
                    !.genmem  = CopyInto(f.genmem, f.i,
                                    XORKeyStream(Slice(f.genmem, f.i - 64, f.i), ctr, f.s20key)),
                    !.i       = f.i + 64]
          : f \in {frame},
            ctr \in {CopyInto(frame.s20ctr, 8, LittleEndianUint64(frame.s20ctri))} })

\* Lines 58-60 and the loop's i += 64: one block from the block before it.
FillBlock(frame) ==
    The({ [f EXCEPT !.s20ctr  = ctr,
                    !.genmem  = CopyInto(f.genmem, f.i,
                                    XORKeyStream(Slice(f.genmem, f.i - 64, f.i), ctr, f.s20key)),
                    !.s20ctri = f.s20ctri + 1,
                    !.i       = f.i + 64]
          : f \in {frame},
            ctr \in {CopyInto(frame.s20ctr, 8, LittleEndianUint64(frame.s20ctri))} })

\* idx1 read from the digest state instead, at i wrapped into its 64 bytes.
MixIdx1FromSeed(f) ==
    BigEndianUint64Mod(Slice(f.s512, f.i % 64, (f.i % 64) + 8), 8) * 8

\* Line 65: idx1, from the 8 bytes of working memory at i.
MixIdx1(f) == BigEndianUint64Mod(Slice(f.genmem, f.i, f.i + 8), 8) * 8

\* Lines 66-67: idx2, from the 8 bytes of working memory at i + 8.
MixIdx2(f) ==
    BigEndianUint64Mod(Slice(f.genmem, f.i + 8, f.i + 16), ztIdentityGenMemory \div 8) * 8

\* Lines 65-76: one pass of the mixing loop.
MixStep(frame) ==
    The({ LET gm == Slice(f.genmem, idx2, idx2 + 8)
              d  == Slice(f.s512, idx1, idx1 + 8)
          IN  [f EXCEPT !.idx1    = idx1,
                        !.idx2    = idx2,
                        !.i       = f.i + 16,
                        !.genmem  = CopyInto(f.genmem, idx2, d),
                        !.s20ctr  = ctr,
                        !.s512    = XORKeyStream(CopyInto(f.s512, idx1, gm), ctr, f.s20key),
                        !.s20ctri = f.s20ctri + 1]
          : f \in {frame},
            idx1 \in {MixIdx1(frame)},
            idx2 \in {MixIdx2(frame)},
            ctr \in {CopyInto(frame.s20ctr, 8, LittleEndianUint64(frame.s20ctri))} })

RECURSIVE RunFill(_)
RunFill(f) == IF f.i < ztIdentityGenMemory THEN RunFill(FillBlock(f)) ELSE f

RECURSIVE RunMix(_)
RunMix(f) == IF f.i < ztIdentityGenMemory THEN RunMix(MixStep(f)) ELSE f

\* The whole function, lines 46-80: its result depends on publicKey alone.
computeZeroTierIdentityMemoryHardHash(publicKey) ==
    RunMix([RunFill(FillFirst(HashEnter(publicKey))) EXCEPT !.i = 0]).s512

\* --------------------------------------------------- the random source
\* What one read of 32 bytes from secrand.Reader yields: the bytes, or an
\* error and no bytes.
ReadError == [bytes |-> << >>, err |-> TRUE]

Rand32(k) == Bytes([j \in 1..32 |-> (k * k * (16 * j + 1)) % 256])

ReaderYields ==
    {[bytes |-> Rand32(k), err |-> FALSE] : k \in 0..MaxEntropy} \cup {ReadError}

\* ------------------------------------------------------ generateDualPair
NotEnoughEntropy == "Not enough entropy"
SliceBoundsOutOfRange == "runtime error: slice bounds out of range"

\* ed25519.GenerateKey(secrand.Reader): the 32-byte public key and the
\* 64-byte private key (seed, then public key); nil, nil and the error when
\* the read of the seed fails.
GenerateKey(read) ==
    IF read.err
    THEN [pub |-> << >>, priv |-> << >>, err |-> TRUE]
    ELSE [pub  |-> Ed25519Public(read.bytes),
          priv |-> read.bytes \o Ed25519Public(read.bytes),
          err  |-> FALSE]

\* Lines 83-96.  readA is what the reader yields to ed25519.GenerateKey,
\* readB what it yields to io.ReadFull.  The error of GenerateKey is
\* discarded (line 84); k0pub[0:32] panics on the nil slice (line 92).
generateDualPair(readA, readB) ==
    LET k0     == GenerateKey(readA)
        k1priv == readB.bytes
        k1pub  == ScalarBaseMult(k1priv)
    IN  IF readB.err
        THEN [panic |-> NotEnoughEntropy, pub |-> << >>, priv |-> << >>]
        ELSE IF Len(k0.pub) < 32
        THEN [panic |-> SliceBoundsOutOfRange, pub |-> << >>, priv |-> << >>]
        ELSE [panic |-> "",
              pub   |-> CopyInto(CopyInto(Zeros(64), 0, k1pub), 32, Slice(k0.pub, 0, 32)),
              priv  |-> CopyInto(CopyInto(Zeros(64), 0, k1priv), 32, Slice(k0.priv, 0, 32))]

\* ------------------------------------------------------ ZeroTierIdentity
\* A pointer is the index of a cell of the heap, or NIL.
NIL == 0

\* The zero value of the struct, lines 99-103.
ZeroIdentity == [address |-> Zeros(8), publicKey |-> Zeros(64), privateKey |-> NIL]

\* uint64(b)
Uint64OfByte(b) == <<0, 0, 0, 0, 0, 0, 0, b>>
\* a <<= 8
Shl8(a) == The({ <<x[2], x[3], x[4], x[5], x[6], x[7], x[8], 0>> : x \in {a} })
\* a |= uint64(b)
OrLow(a, b) ==
    The({ <<x[1], x[2], x[3], x[4], x[5], x[6], x[7], OrByte(x[8], b)>> : x \in {a} })

\* The test of line 111 without its first half.
QualifiesAnyFirstByte(d) == d[60] # 255

\* Line 111.
Qualifies(d) == d[1] < ztIdentityHashCashFirstByteLessThan /\ d[60] # 255

\* Lines 112-120.
AddressOf(d) ==
    OrLow(Shl8(OrLow(Shl8(OrLow(Shl8(OrLow(Shl8(Uint64OfByte(d[60])),
        d[61])), d[62])), d[63])), d[64])

\* --------------------------------------------------------- the encoders
HexDigits == <<"0", "1", "2", "3", "4", "5", "6", "7",
               "8", "9", "a", "b", "c", "d", "e", "f">>

\* The nibbles of a byte array, most significant first.
Nibbles(b) ==
    [j \in 1..(2 * Len(b)) |->
        IF j % 2 = 1 THEN b[(j + 1) \div 2] \div 16 ELSE b[j \div 2] % 16]

\* fmt's %x of a byte array: two lowercase hex digits for each byte.
FmtHexBytes(b) == Bytes([j \in 1..(2 * Len(b)) |-> HexDigits[Nibbles(b)[j] + 1]])

\* %x in place of %.10x: no zeros on the left.
FmtAddressNoPad(a) ==
    LET n     == [j \in 1..(2 * Len(a)) |->
                    IF j % 2 = 1 THEN a[(j + 1) \div 2] \div 16 ELSE a[j \div 2] % 16]
        lead  == Cardinality({k \in 1..16 : \A j \in 1..k : n[j] = 0})
        keep  == IF lead = 16 THEN 1 ELSE 16 - lead
    IN  Bytes([j \in 1..keep |-> HexDigits[n[16 - keep + j] + 1]])

\* fmt's %.10x of a uint64: its hex digits without leading zeros, then
\* zeros on the left up to 10 digits; more than 10 digits stay.
FmtAddress(a) ==
    LET n     == Nibbles(a)
        lead  == Cardinality({k \in 1..16 : \A j \in 1..k : n[j] = 0})
        keep  == IF 16 - lead > 10 THEN 16 - lead ELSE 10
    IN  Bytes([j \in 1..keep |-> HexDigits[n[16 - keep + j] + 1]])

\* Lines 145-147.
IDString(z) == FmtAddress(z.address)

\* Lines 140-142.
PublicKeyString(z) ==
    FmtAddress(z.address) \o <<":", "0", ":">> \o FmtHexBytes(z.publicKey)

\* PrivateKeyString printing 64 zero bytes for a key that is not set.
PrivateKeyStringZeroFill(z, mem) ==
    LET key == IF z.privateKey # NIL THEN mem[z.privateKey]
                                     ELSE [j \in 1..64 |-> 0]
        hex(b) == [j \in 1..(2 * Len(b)) |->
                     HexDigits[(IF j % 2 = 1 THEN b[(j + 1) \div 2] \div 16
                                             ELSE b[j \div 2] % 16) + 1]]
    IN  hex(z.publicKey) \o <<":">> \o hex(key)

\* Lines 132-137; mem is the heap the pointer is read through.
PrivateKeyString(z, mem) ==
    IF z.privateKey # NIL
    THEN FmtAddress(z.address) \o <<":", "0", ":">> \o FmtHexBytes(z.publicKey)
            \o <<":">> \o FmtHexBytes(mem[z.privateKey])
    ELSE << >>

\* ------------------------------------------------------------- the state
VARIABLES
    pc,         \* where NewZeroTierIdentity is, or "returned" / "panic"
    pub, priv,  \* the loop's pub and priv (line 109)
    mh,         \* the frame of computeZeroTierIdentityMemoryHardHash
    dig,        \* the loop's dig (line 110)
    id,         \* the result parameter id (line 107)
    heap,       \* the [64]byte cells that pointers point to
    panicked,   \* the value of the panic that ended the call, or ""
    callerKey,  \* what the caller holds from PrivateKey(): a pointer
    callerPub,  \* what the caller holds from PublicKey(): an array
    idCopy,     \* the caller's copy of the struct
    cancel,     \* the caller wants the search to stop
    reads,      \* what the reader yielded in the last generateDualPair
    made,       \* the identity's fields and key bytes as returned
    last        \* the key and digest of the evaluation before this one

vars == <<pc, pub, priv, mh, dig, id, heap, panicked, callerKey, callerPub,
          idCopy, cancel, reads, made, last>>

loopVars == <<pc, pub, priv, mh, dig, id, heap, panicked, reads, made, last>>
callerVars == <<callerKey, callerPub, idCopy>>

NoFrame ==
    [ s512 |-> Zeros(64), genmem |-> Zeros(ztIdentityGenMemory),
      s20key |-> Zeros(32), s20ctr |-> Zeros(16), s20ctri |-> 0,
      i |-> 0, idx1 |-> 0, idx2 |-> 0 ]

Init ==
    /\ pc = "generate"
    /\ pub = Zeros(64)
    /\ priv = Zeros(64)
    /\ mh = NoFrame
    /\ dig = Zeros(64)
    /\ id = ZeroIdentity
    /\ heap = << >>
    /\ panicked = ""
    /\ callerKey = NIL
    /\ callerPub = Zeros(64)
    /\ idCopy = ZeroIdentity
    /\ cancel = FALSE
    /\ reads = [a |-> ReadError, b |-> ReadError, done |-> FALSE,
                cancelled |-> FALSE]
    /\ made = [done |-> FALSE]
    /\ last = [done |-> FALSE]

\* --------------------------------------------------- NewZeroTierIdentity
\* Line 109: the call of generateDualPair, which returns or panics.
CallGenerateDualPair ==
    /\ \E readA \in ReaderYields, readB \in ReaderYields :
          LET r == generateDualPair(readA, readB)
          IN  /\ reads' = [a |-> readA, b |-> readB, done |-> TRUE,
                            cancelled |-> cancel]
              /\ IF r.panic # ""
                 THEN /\ pc' = "panic"
                      /\ panicked' = r.panic
                      /\ UNCHANGED <<pub, priv>>
                 ELSE /\ pc' = "hash"
                      /\ pub' = r.pub
                      /\ priv' = r.priv
                      /\ UNCHANGED panicked
    /\ last' = IF reads.done THEN [done |-> TRUE, pub |-> pub, dig |-> dig]
                              ELSE last
    /\ UNCHANGED <<mh, dig, id, heap, made, callerVars, cancel>>

\* The top of the loop with a test of the caller's signal.
GenerateUnlessCancelled ==
    /\ pc = "generate"
    /\ ~cancel
    /\ CallGenerateDualPair

\* Line 108: the top of the loop, which nothing guards.
Generate ==
    /\ pc = "generate"
    /\ CallGenerateDualPair

\* The call entered on the working memory the call before left behind.
HashStartOnOldMemory ==
    /\ pc = "hash"
    /\ mh' = FillFirst([HashEnter(pub) EXCEPT !.genmem = mh.genmem])
    /\ pc' = "fill"
    /\ UNCHANGED <<pub, priv, dig, id, heap, panicked, reads, made, last,
                   callerVars, cancel>>

\* Line 110, entering the call: lines 47-57.
HashStart ==
    /\ pc = "hash"
    /\ mh' = FillFirst(HashEnter(pub))
    /\ pc' = "fill"
    /\ UNCHANGED <<pub, priv, dig, id, heap, panicked, reads, made, last,
                   callerVars, cancel>>

\* Lines 57-61: one pass of the fill loop, or its end and the mixing
\* loop's i := 0 (line 64).
Fill ==
    /\ pc = "fill"
    /\ IF mh.i < ztIdentityGenMemory
       THEN /\ mh' = FillBlock(mh)
            /\ pc' = "fill"
       ELSE /\ mh' = [mh EXCEPT !.i = 0]
            /\ pc' = "mix"
    /\ UNCHANGED <<pub, priv, dig, id, heap, panicked, reads, made, last,
                   callerVars, cancel>>

\* Lines 64-79: one pass of the mixing loop, or its end and the return of
\* s512 into dig.
Mix ==
    /\ pc = "mix"
    /\ IF mh.i < ztIdentityGenMemory
       THEN /\ mh' = MixStep(mh)
            /\ pc' = "mix"
            /\ UNCHANGED dig
       ELSE /\ dig' = mh.s512
            /\ pc' = "evaluate"
            /\ UNCHANGED mh
    /\ UNCHANGED <<pub, priv, id, heap, panicked, reads, made, last,
                   callerVars, cancel>>

\* The loop with a limit of one attempt: a rejected candidate ends the call.
EvaluateGivesUp ==
    /\ pc = "evaluate"
    /\ IF Qualifies(dig) /\ AddressOf(dig) # Zeros(8)
       THEN /\ heap' = Append(heap, priv)
            /\ id' = [address    |-> AddressOf(dig),
                      publicKey  |-> pub,
                      privateKey |-> Len(heap) + 1]
            /\ made' = [done |-> TRUE, address |-> AddressOf(dig),
                        publicKey |-> pub, privateKey |-> priv]
            /\ pc' = "returned"
            /\ UNCHANGED panicked
       ELSE /\ pc' = "panic"
            /\ panicked' = "mining exhausted"
            /\ UNCHANGED <<id, heap, made>>
    /\ UNCHANGED <<pub, priv, mh, dig, reads, last, callerVars, cancel>>

\* Lines 111-127: the test of the digest.  A digest that passes sets
\* id.address; a non-zero address sets the keys and breaks out of the loop,
\* anything else goes round again.
Evaluate ==
    /\ pc = "evaluate"
    /\ IF Qualifies(dig)
       THEN IF AddressOf(dig) # Zeros(8)
            THEN /\ heap' = Append(heap, priv)
                 /\ id' = [address    |-> AddressOf(dig),
                           publicKey  |-> pub,
                           privateKey |-> Len(heap) + 1]
                 /\ made' = [done |-> TRUE, address |-> AddressOf(dig),
                             publicKey |-> pub, privateKey |-> priv]
                 /\ pc' = "returned"
            ELSE /\ id' = [id EXCEPT !.address = AddressOf(dig)]
                 /\ pc' = "generate"
                 /\ UNCHANGED <<heap, made>>
       ELSE /\ pc' = "generate"
            /\ UNCHANGED <<id, heap, made>>
    /\ UNCHANGED <<pub, priv, mh, dig, panicked, reads, last, callerVars, cancel>>

\* ------------------------------------------------------------ the caller
WriteAt == {1, 64}
WriteByte == {0, 255}

\* Lines 155-157: PrivateKey() on the identity or on the caller's copy of
\* it hands out the pointer held in the struct.
CallPrivateKey ==
    /\ pc = "returned"
    /\ \E z \in {id, idCopy} : callerKey' = z.privateKey
    /\ callerKey' # callerKey
    /\ UNCHANGED <<loopVars, callerPub, idCopy, cancel>>

\* Lines 160-162: PublicKey() hands out the array by value.
CallPublicKey ==
    /\ pc = "returned"
    /\ callerPub' = id.publicKey
    /\ callerPub' # callerPub
    /\ UNCHANGED <<loopVars, callerKey, idCopy, cancel>>

\* The caller copies the struct (c := id).
CopyIdentity ==
    /\ pc = "returned"
    /\ idCopy' = id
    /\ idCopy' # idCopy
    /\ UNCHANGED <<loopVars, callerKey, callerPub, cancel>>

\* The caller writes a byte through the pointer it holds.
WriteThroughKey ==
    /\ pc = "returned"
    /\ callerKey # NIL
    /\ \E k \in WriteAt, v \in WriteByte :
          /\ heap[callerKey][k] # v
          /\ heap' = [heap EXCEPT ![callerKey][k] = v]
    /\ UNCHANGED <<pc, pub, priv, mh, dig, id, panicked, reads, made, last,
                   callerVars, cancel>>

\* The caller writes a byte of the array it holds.
WriteOwnPub ==
    /\ pc = "returned"
    /\ \E v \in WriteByte :
          /\ callerPub[1] # v
          /\ callerPub' = [callerPub EXCEPT ![1] = v]
    /\ UNCHANGED <<loopVars, callerKey, idCopy, cancel>>

\* The caller decides the search should stop.  NewZeroTierIdentity takes
\* no argument and reads nothing of the caller's (line 107).
RaiseCancel ==
    /\ pc \in {"generate", "hash", "fill", "mix", "evaluate"}
    /\ ~cancel
    /\ cancel' = TRUE
    /\ UNCHANGED <<loopVars, callerVars>>

Next ==
    \/ Generate
    \/ HashStart
    \/ Fill
    \/ Mix
    \/ Evaluate
    \/ CallPrivateKey
    \/ CallPublicKey
    \/ CopyIdentity
    \/ WriteThroughKey
    \/ WriteOwnPub
    \/ RaiseCancel

Spec == Init /\ [][Next]_vars

LoopStep == Generate \/ HashStart \/ Fill \/ Mix \/ Evaluate

\* The keys generateDualPair can return here, and the digest of each as the
\* function of the key alone.
MinedKeys ==
    {generateDualPair(a, b).pub : a, b \in ReaderYields \ {ReadError}}

HashGraph == {<<k, computeZeroTierIdentityMemoryHardHash(k)>> : k \in MinedKeys}

DigestOf(k) == (CHOOSE e \in HashGraph : e[1] = k)[2]

\* The keys whose digest passes the test of line 111 with a non-zero
\* address.
QualifyingKeys ==
    {e[1] : e \in {g \in HashGraph : Qualifies(g[2]) /\ AddressOf(g[2]) # Zeros(8)}}

\* Line 109 has just drawn such a key.
DrawnQualifying ==
    /\ pc = "hash"
    /\ pub \in QualifyingKeys

\* The call is one sequential thread that keeps running: each step of the
\* loop that can be taken is taken.  Which bytes the reader yields is left
\* open, but for the assumption the mining loop rests on: a loop that keeps
\* coming back to its top keeps drawing qualifying keys.
FairSpec ==
    /\ Spec
    /\ WF_vars(LoopStep)
    /\ ([]<>(pc = "generate") => []<>DrawnQualifying)

\* ------------------------------------------------------------ properties
InLoop == pc \in {"generate", "hash", "fill", "mix", "evaluate"}

\* C1: every identity NewZeroTierIdentity returns has a public key whose
\* memory-hard digest d has d[0] < 17 and d[59] # 0xff, an address that is
\* the big-endian value of d[59..63] of that digest, non-zero and below
\* 2^40 (the three high bytes of the uint64 are zero).
C1_MinedIdentityIsValid ==
    pc = "returned" =>
        LET d == DigestOf(id.publicKey)
        IN  /\ d[1] < 17
            /\ d[60] # 255
            /\ id.address = <<0, 0, 0, d[60], d[61], d[62], d[63], d[64]>>
            /\ id.address # <<0, 0, 0, 0, 0, 0, 0, 0>>
            /\ id.address[1] = 0 /\ id.address[2] = 0 /\ id.address[3] = 0

\* An identity was returned after at least one attempt had been discarded.
C1_Witness ==
    /\ pc = "returned"
    /\ last.done
    /\ last.pub # id.publicKey

\* C2: when the reader fails on a read of generateDualPair (the read of
\* the signature seed or the read of the key-agreement scalar), the call
\* ends in the "Not enough entropy" panic, nothing is retried or hashed and
\* no identity is built.
C2_EntropyFailureIsReported ==
    (reads.done /\ (reads.a.err \/ reads.b.err)) =>
        /\ pc = "panic"
        /\ panicked = NotEnoughEntropy
        /\ ~made.done
        /\ id = ZeroIdentity

\* C3: once returned, the identity's address, public key and private key
\* bytes stay what they were, whatever the caller does with what the
\* accessors handed out or with a copy of the struct.
C3_IdentityNeverChanges ==
    made.done =>
        /\ id.address = made.address
        /\ id.publicKey = made.publicKey
        /\ id.privateKey # NIL
        /\ heap[id.privateKey] = made.privateKey

\* The candidate under test is accepted: its digest passes and its address
\* is not zero.
AcceptCase == pc = "evaluate" /\ Qualifies(dig) /\ AddressOf(dig) # Zeros(8)

\* C4 as stated: control leaves the mining loop only by accepting a
\* candidate.
C4_LeavesOnlyThroughAccept ==
    [][(InLoop /\ ~InLoop') => (AcceptCase /\ pc' = "returned")]_vars

\* C4 amended: control leaves the mining loop by accepting a candidate or
\* by the panic of generateDualPair on a failed read, and in no other way;
\* the test of a candidate ends in the return when the candidate is
\* accepted and at the top of the loop when it is not, where another
\* attempt can always start (there is no limit on attempts); and if
\* qualifying keys keep being drawn whenever the loop keeps coming back to
\* its top, the call ends, by returning or by that panic.
C4_UnboundedLoop ==
    /\ [][(InLoop /\ ~InLoop') =>
            \/ AcceptCase /\ pc' = "returned"
            \/ /\ pc = "generate" /\ pc' = "panic"
               /\ (reads'.a.err \/ reads'.b.err)]_vars
    /\ [][(pc = "evaluate" /\ pc' # pc) =>
            pc' = IF AcceptCase THEN "returned" ELSE "generate"]_vars
    /\ [](pc = "generate" => ENABLED Generate)
    /\ <>(pc \in {"returned", "panic"})

\* A candidate whose digest passed but whose address was zero has been
\* discarded, after an earlier attempt, and the loop is at its top again.
C4_Witness ==
    /\ pc = "generate"
    /\ last.done
    /\ Qualifies(dig)
    /\ AddressOf(dig) = Zeros(8)

\* C5 as stated: once the caller has raised the signal, no further attempt
\* starts.
C5_StopsOnCancel ==
    [][cancel => ~(pc = "generate" /\ pc' # "generate")]_vars

\* C5 amended: the caller's signal is not read anywhere: with the signal
\* raised, the loop can take its next step at every point, and a new
\* attempt can start at the top of the loop.
C5_CancelIsIgnored ==
    /\ (cancel /\ InLoop) => ENABLED LoopStep
    /\ (cancel /\ pc = "generate") => ENABLED Generate


\* An attempt was started while the signal was raised, and has been hashed.
C5_Witness ==
    /\ reads.done
    /\ reads.cancelled
    /\ pc = "evaluate"

\* What PrivateKeyString says of one struct value.
PrivateStringOf(z) == PrivateKeyString(z, heap)

HexValue(c) ==
    CASE c = "0" -> 0 [] c = "1" -> 1 [] c = "2" -> 2 [] c = "3" -> 3
      [] c = "4" -> 4 [] c = "5" -> 5 [] c = "6" -> 6 [] c = "7" -> 7
      [] c = "8" -> 8 [] c = "9" -> 9 [] c = "a" -> 10 [] c = "b" -> 11
      [] c = "c" -> 12 [] c = "d" -> 13 [] c = "e" -> 14 [] c = "f" -> 15

LowerHex == {HexDigits[n] : n \in 1..16}

IsLowerHex(s) == \A j \in 1..Len(s) : s[j] \in LowerHex

UnHex(s) ==
    Bytes([j \in 1..(Len(s) \div 2) |->
              16 * HexValue(s[2 * j - 1]) + HexValue(s[2 * j])])

\* C6: PrivateKeyString is empty exactly when no private key is held; when
\* one is held its last 128 digits are the bytes held; and the identity
\* NewZeroTierIdentity returns holds one, so its string is not empty.
C6_PrivateStringAbsence ==
    /\ \A z \in {id, idCopy} : \A s \in {PrivateStringOf(z)} :
          /\ (s = << >>) <=> (z.privateKey = NIL)
          /\ z.privateKey # NIL =>
                /\ Len(s) = 270
                /\ UnHex(SubSeq(s, 143, 270)) = heap[z.privateKey]
    /\ pc = "returned" =>
          /\ id.privateKey # NIL
          /\ PrivateStringOf(id) # << >>

\* The returned identity holds a key and the caller's zero struct none.
C6_Witness ==
    /\ pc = "returned"
    /\ id.privateKey # NIL
    /\ idCopy.privateKey = NIL
    /\ PrivateStringOf(idCopy) = << >>

\* The layout of the three strings of one struct value.
StringLayout(z) ==
    \A a \in {IDString(z)}, p \in {PublicKeyString(z)}, s \in {PrivateStringOf(z)} :
        /\ Len(a) = 10
        /\ IsLowerHex(a)
        /\ UnHex(a) = SubSeq(z.address, 4, 8)
        /\ SubSeq(z.address, 1, 3) = <<0, 0, 0>>
        /\ Len(p) = 141
        /\ SubSeq(p, 1, 10) = a
        /\ SubSeq(p, 11, 13) = <<":", "0", ":">>
        /\ IsLowerHex(SubSeq(p, 14, 141))
        /\ UnHex(SubSeq(p, 14, 141)) = z.publicKey
        /\ z.privateKey # NIL =>
              /\ Len(s) = 270
              /\ SubSeq(s, 1, 141) = p
              /\ s[142] = ":"
              /\ IsLowerHex(SubSeq(s, 143, 270))
              /\ UnHex(SubSeq(s, 143, 270)) = heap[z.privateKey]

\* C7: IDString is 10 lowercase hex digits that read back as the address;
\* PublicKeyString is IDString, ":0:" and 128 lowercase hex digits that
\* read back as the public key; PrivateKeyString, when a key is held, is
\* PublicKeyString, ":" and 128 lowercase hex digits that read back as the
\* private key; two values that differ in address or public key have
\* different public strings.
C7_StringLayout ==
    /\ StringLayout(id)
    /\ StringLayout(idCopy)
    /\ <<id.address, id.publicKey>> # <<idCopy.address, idCopy.publicKey>>
          => PublicKeyString(id) # PublicKeyString(idCopy)

\* A returned identity whose key bytes the caller has written to, beside a
\* struct of other address and key.
C7_Witness ==
    /\ pc = "returned"
    /\ idCopy = ZeroIdentity
    /\ id.address # Zeros(8)
    /\ heap[id.privateKey] # made.privateKey

\* C8: the digest an evaluation returns is the function of the public key
\* alone, whatever the evaluations before it left behind; an evaluation of
\* the key the evaluation before it had returns the digest that one did.
C8_HashIsPure ==
    pc = "evaluate" =>
        /\ dig = DigestOf(pub)
        /\ (last.done /\ last.pub = pub) => dig = last.dig

\* The same non-zero key has been evaluated twice in a row.
C8_Witness ==
    /\ pc = "evaluate"
    /\ last.done
    /\ last.pub = pub
    /\ pub # Zeros(64)

\* One pass of the mixing loop.
MixPass == pc = "mix" /\ mh' # mh

\* C9 as stated: the two integers are read from the 64-byte digest state,
\* at i and i + 8 wrapped into it.
C9_IndicesFromSeed ==
    [][MixPass =>
          LET o1 == mh.i % 64
              o2 == (mh.i + 8) % 64
          IN  /\ mh'.idx1 = (mh.s512[o1 + 8] % 8) * 8
              /\ mh'.idx2 =
                    BigEndianUint64Mod(SubSeq(mh.s512, o2 + 1, o2 + 8),
                                       ztIdentityGenMemory \div 8) * 8]_vars

\* C9 amended: the two integers are read from the working memory, the first
\* at i and the second at i + 8, and i moves on by 16; idx1 is the low 3
\* bits of the first times 8, idx2 the second modulo M/8 times 8; the 8
\* bytes of the digest state at idx1 go to the working memory at idx2.
C9_IndicesFromMemory ==
    [][MixPass =>
          /\ mh'.i = mh.i + 16
          /\ mh'.idx1 = (mh.genmem[mh.i + 8] % 8) * 8
          /\ mh'.idx2 =
                BigEndianUint64Mod(SubSeq(mh.genmem, mh.i + 9, mh.i + 16),
                                   ztIdentityGenMemory \div 8) * 8
          /\ SubSeq(mh'.genmem, mh'.idx2 + 1, mh'.idx2 + 8)
                = SubSeq(mh.s512, mh'.idx1 + 1, mh'.idx1 + 8)]_vars

\* Two passes have run and the last one swapped at non-zero positions.
C9_Witness ==
    /\ pc = "mix"
    /\ mh.i >= 32
    /\ mh.idx1 # 0
    /\ mh.idx2 # 0

\* C10 as stated: the counter after the mixing loop is M/64 + M/8.
C10_CounterEndsAtEighth ==
    pc = "evaluate" => mh.s20ctri = ztIdentityGenMemory \div 64 + ztIdentityGenMemory \div 8

\* C10 amended: the counter starts at 0 and goes up by one for each block:
\* M/64 blocks fill the memory, then one block for each 16-byte step of i
\* over the memory, M/16 in all, so the counter ends at M/64 + M/16; the
\* block just applied used the counter value before the increment.
C10_CounterPerBlock ==
    /\ pc = "fill" => mh.s20ctri = mh.i \div 64
    /\ pc = "mix" => mh.s20ctri = ztIdentityGenMemory \div 64 + mh.i \div 16
    /\ pc = "evaluate" =>
          mh.s20ctri = ztIdentityGenMemory \div 64 + ztIdentityGenMemory \div 16
    /\ pc \in {"fill", "mix", "evaluate"} =>
          SubSeq(mh.s20ctr, 9, 16) = LittleEndianUint64(mh.s20ctri - 1)

\* An evaluation of a non-zero key has finished.
C10_Witness ==
    /\ pc = "evaluate"
    /\ pub # Zeros(64)
    /\ mh.s20ctri > ztIdentityGenMemory \div 64
====
